---------------------------- MODULE Spec2Model ----------------------------
(* The HBNB command interpreter of console.py: a cmd.Cmd read-eval-print  *)
(* loop over a storage engine that keeps an ordered key -> object map in  *)
(* memory and rewrites a file on save.                                    *)
(*                                                                        *)
(* A command line is modelled after tokenisation: a sequence of           *)
(* whitespace-separated tokens, the verb first.  Printed values are kept  *)
(* as records: [text |-> s] for print(<string>), [list |-> L] for         *)
(* print(<list of strings>), [help |-> topic] for the library's help.     *)
EXTENDS Naturals, Sequences, FiniteSets, TLC

VARIABLES
    objects,    \* storage.all(): the ordered key -> object map (a dict)
    file,       \* the map last written by storage.save()
    out,        \* what the command just run has printed
    stop,       \* cmdloop's stop flag: the last handler's return value
    line,       \* the line cmdloop has just read
    lastcmd,    \* cmd.Cmd.lastcmd: the last non-empty line
    now,        \* the clock datetime.now() reads
    issued,     \* the ids that exist already (uuid4 yields none of them)
    initial,    \* history: the map as it was loaded at start-up
    created,    \* history: [cls, id, obj] of every create that printed an id
    made,       \* history: those of created not named by a later destroy
    destroyed,  \* history: <<cls, id>> of every destroy that printed nothing
    gone        \* history: those of destroyed not created again since

vars == <<objects, file, out, stop, line, lastcmd, now, issued,
          initial, created, made, destroyed, gone>>

-----------------------------------------------------------------------------
(* Program constants *)

current_classes == {"BaseModel"}

None == [cls |-> "NoneType"]

-----------------------------------------------------------------------------
(* Bounds of the model *)

MaxIds == 3

MaxInit == 1

IdPool == <<"a1", "b2", "c3", "d4", "e5", "f6">>

Ids == {IdPool[n] : n \in 1..MaxIds}

\* Class names a user types: the known one and one that is not known.
ClassTokens == {"BaseModel", "MyModel"}

\* The argument lists a user types after a verb: none, a class name, a class
\* name and an id, and the same with a trailing extra token.  The unknown
\* class and the extra token come with the first id only: neither handler
\* reads the id behind an unknown class, nor a third argument.
ArgLists ==
    {<<>>}
    \cup {<<c>> : c \in ClassTokens}
    \cup {<<c, i>> : c \in current_classes, i \in Ids}
    \cup {<<c, IdPool[1]>> : c \in ClassTokens \ current_classes}
    \cup {<<c, IdPool[1], "extra">> : c \in current_classes}

-----------------------------------------------------------------------------
(* Python's dict, insertion ordered: a sequence of [k, v] entries *)

Keys(d) == {d[n].k : n \in 1..Len(d)}

Get(d, key) ==
    IF key \in Keys(d)
    THEN d[CHOOSE n \in 1..Len(d) : d[n].k = key].v
    ELSE None

Del(d, key) == SelectSeq(d, LAMBDA e : e.k # key)

Put(d, key, v) ==
    IF key \in Keys(d)
    THEN [n \in 1..Len(d) |-> IF d[n].k = key THEN [k |-> key, v |-> v] ELSE d[n]]
    ELSE Append(d, [k |-> key, v |-> v])

\* "{}.{}".format(a, b)
FormatKey(a, b) == a \o "." \o b

\* str(obj) of a model instance: "[<class name>] (<id>) <__dict__>"
Str(o) ==
    "[" \o o.cls \o "] (" \o o.id \o ") "
        \o ToString([id |-> o.id, created_at |-> o.created_at,
                     updated_at |-> o.updated_at])

\* type(v).__name__
TypeName(v) == v.cls

Text(s) == [text |-> s]

-----------------------------------------------------------------------------
(* models: the entity and the storage engine *)

\* BaseModel(): a fresh id and both timestamps read from the clock.
NewModel(cls, id, t) ==
    [cls |-> cls, id |-> id, created_at |-> t, updated_at |-> t]

\* The composite key storage files an object under: "<class name>.<id>".
StorageKey(obj) == TypeName(obj) \o "." \o obj.id

\* storage.new(obj): register obj under its composite key.
StorageNew(d, obj) == Put(d, StorageKey(obj), obj)

\* storage.save(): the file is rewritten with the whole map.
StorageSave(d) == d

\* obj.save(): the update timestamp is read again; the stored reference is
\* the object itself, so the map sees the change.
ModelSave(d, obj, t) ==
    Put(d, StorageKey(obj), [obj EXCEPT !.updated_at = t])

-----------------------------------------------------------------------------
(* console.py *)

\* validate_classname(args, check_id): what it returns and what it prints.
validate_classname(args, check_id) ==
    IF Len(args) < 1
    THEN [ok |-> FALSE, out |-> <<Text("** class name missing ** ")>>]
    ELSE IF args[1] \notin current_classes
    THEN [ok |-> FALSE, out |-> <<Text("** class doesn't exist ** ")>>]
    ELSE IF Len(args) < 2 /\ check_id
    THEN [ok |-> FALSE, out |-> <<Text("** instance id missing **")>>]
    ELSE [ok |-> TRUE, out |-> <<>>]

do_help(args) ==
    /\ out' = <<[help |-> args]>>
    /\ stop' = FALSE
    /\ UNCHANGED <<objects, file, now, issued>>

do_EOF(args) ==
    /\ out' = <<>>
    /\ stop' = TRUE
    /\ UNCHANGED <<objects, file, now, issued>>

\* do_quit that falls off its end: it returns None.
do_quit_none(args) ==
    /\ out' = <<>>
    /\ stop' = FALSE
    /\ UNCHANGED <<objects, file, now, issued>>

do_quit(args) ==
    /\ out' = <<>>
    /\ stop' = TRUE
    /\ UNCHANGED <<objects, file, now, issued>>

\* do_create whose instance never reaches the storage.
do_create_unregistered(args) ==
    LET chk == validate_classname(args, FALSE) IN
    IF ~chk.ok
    THEN /\ out' = chk.out
         /\ stop' = FALSE
         /\ UNCHANGED <<objects, file, now, issued>>
    ELSE \E id \in Ids \ issued :
           /\ objects' = objects
           /\ file' = StorageSave(objects)
           /\ out' = <<Text(id)>>
           /\ stop' = FALSE
           /\ now' = now + 1
           /\ issued' = issued \cup {id}

do_create(args) ==
    LET chk == validate_classname(args, FALSE) IN
    IF ~chk.ok
    THEN /\ out' = chk.out
         /\ stop' = FALSE
         /\ UNCHANGED <<objects, file, now, issued>>
    ELSE \E id \in Ids \ issued :
           LET new_obj == NewModel(args[1], id, now)
               registered == StorageNew(objects, new_obj)
               saved == ModelSave(registered, new_obj, now + 1)
           IN /\ objects' = saved
              /\ file' = StorageSave(saved)
              /\ out' = <<Text(new_obj.id)>>
              /\ stop' = FALSE
              /\ now' = now + 1
              /\ issued' = issued \cup {id}

\* do_show with the key's parts the wrong way round.
do_show_swapped(args) ==
    LET chk == validate_classname(args, TRUE) IN
    /\ stop' = FALSE
    /\ UNCHANGED <<objects, file, now, issued>>
    /\ IF ~chk.ok
       THEN out' = chk.out
       ELSE LET req_instance == Get(objects, FormatKey(args[2], args[1]))
            IN IF req_instance = None
               THEN out' = <<Text("** no instance found **")>>
               ELSE out' = <<Text(Str(req_instance))>>

\* do_show that takes the entry out of the map: pop(key, None) for get.
do_show_pop(args) ==
    LET chk == validate_classname(args, TRUE) IN
    /\ stop' = FALSE
    /\ UNCHANGED <<file, now, issued>>
    /\ IF ~chk.ok
       THEN out' = chk.out /\ objects' = objects
       ELSE LET key == FormatKey(args[1], args[2])
                req_instance == Get(objects, key)
            IN /\ objects' = Del(objects, key)
               /\ IF req_instance = None
                  THEN out' = <<Text("** no instance found **")>>
                  ELSE out' = <<Text(Str(req_instance))>>

do_show(args) ==
    LET chk == validate_classname(args, TRUE) IN
    /\ stop' = FALSE
    /\ UNCHANGED <<objects, file, now, issued>>
    /\ IF ~chk.ok
       THEN out' = chk.out
       ELSE LET instance_objs == objects
                key == FormatKey(args[1], args[2])
                req_instance == Get(instance_objs, key)
            IN IF req_instance = None
               THEN out' = <<Text("** no instance found **")>>
               ELSE out' = <<Text(Str(req_instance))>>

\* do_destroy that saves without deleting the entry.
do_destroy_nodel(args) ==
    LET chk == validate_classname(args, TRUE) IN
    /\ stop' = FALSE
    /\ UNCHANGED <<now, issued>>
    /\ IF ~chk.ok
       THEN out' = chk.out /\ UNCHANGED <<objects, file>>
       ELSE IF Get(objects, FormatKey(args[1], args[2])) = None
            THEN /\ out' = <<Text("** no instance found **")>>
                 /\ UNCHANGED <<objects, file>>
            ELSE /\ objects' = objects
                 /\ file' = StorageSave(objects')
                 /\ out' = <<>>

\* do_destroy that deletes the entry and does not save.
do_destroy_nosave(args) ==
    LET chk == validate_classname(args, TRUE) IN
    /\ stop' = FALSE
    /\ UNCHANGED <<now, issued>>
    /\ IF ~chk.ok
       THEN out' = chk.out /\ UNCHANGED <<objects, file>>
       ELSE IF Get(objects, FormatKey(args[1], args[2])) = None
            THEN /\ out' = <<Text("** no instance found **")>>
                 /\ UNCHANGED <<objects, file>>
            ELSE /\ objects' = Del(objects, FormatKey(args[1], args[2]))
                 /\ file' = file
                 /\ out' = <<>>

do_destroy(args) ==
    LET chk == validate_classname(args, TRUE) IN
    /\ stop' = FALSE
    /\ UNCHANGED <<now, issued>>
    /\ IF ~chk.ok
       THEN out' = chk.out /\ UNCHANGED <<objects, file>>
       ELSE LET instance_objs == objects
                key == FormatKey(args[1], args[2])
                req_instance == Get(instance_objs, key)
            IN IF req_instance = None
               THEN /\ out' = <<Text("** no instance found **")>>
                    /\ UNCHANGED <<objects, file>>
               ELSE /\ objects' = Del(instance_objs, key)
                    /\ file' = StorageSave(objects')
                    /\ out' = <<>>

\* The list do_all prints: str(v) of each entry of d, in the map's order.
StrList(d) == [n \in 1..Len(d) |-> Str(d[n].v)]

\* do_all whose class filter keeps the objects of the other classes.
do_all_negated(args) ==
    /\ stop' = FALSE
    /\ UNCHANGED <<objects, file, now, issued>>
    /\ IF Len(args) < 1
       THEN out' = <<[list |-> StrList(objects)]>>
       ELSE IF args[1] \notin current_classes
       THEN out' = <<Text("** class doesn't exist ** ")>>
       ELSE out' = <<[list |-> StrList(SelectSeq(objects,
                          LAMBDA e : TypeName(e.v) # args[1]))]>>

do_all(args) ==
    LET all_objs == objects IN
    /\ stop' = FALSE
    /\ UNCHANGED <<objects, file, now, issued>>
    /\ IF Len(args) < 1
       THEN out' = <<[list |-> StrList(all_objs)]>>
       ELSE IF args[1] \notin current_classes
       THEN out' = <<Text("** class doesn't exist ** ")>>
       ELSE out' = <<[list |-> StrList(SelectSeq(all_objs,
                          LAMBDA e : TypeName(e.v) = args[1]))]>>

RECURSIVE JoinTokens(_)
\* The line as typed: its tokens separated by one blank.
JoinTokens(l) ==
    IF Len(l) = 0 THEN ""
    ELSE IF Len(l) = 1 THEN l[1]
    ELSE l[1] \o " " \o JoinTokens(Tail(l))

\* cmd.Cmd.default(line): a verb with no do_<verb> handler.
default(l) ==
    /\ out' = <<Text("*** Unknown syntax: " \o JoinTokens(l))>>
    /\ stop' = FALSE
    /\ UNCHANGED <<objects, file, now, issued>>

\* cmd.Cmd.onecmd for a non-empty line: getattr(self, 'do_' + cmd)(arg).
Dispatch(l) ==
    LET verb == Head(l)
        args == Tail(l)
    IN CASE verb = "help" -> do_help(args)
         [] verb = "EOF" -> do_EOF(args)
         [] verb = "quit" -> do_quit(args)
         [] verb = "create" -> do_create(args)
         [] verb = "show" -> do_show(args)
         [] verb = "destroy" -> do_destroy(args)
         [] verb = "all" -> do_all(args)
         [] OTHER -> default(l)

\* cmd.Cmd.emptyline as the library defines it: run lastcmd again.
emptyline_default ==
    IF lastcmd # <<>>
    THEN Dispatch(lastcmd)
    ELSE /\ out' = <<>>
         /\ stop' = FALSE
         /\ UNCHANGED <<objects, file, now, issued>>

\* HBNBCommand.emptyline: the override does nothing.
emptyline ==
    /\ out' = <<>>
    /\ stop' = FALSE
    /\ UNCHANGED <<objects, file, now, issued>>

\* cmd.Cmd.onecmd(line): an empty line goes to emptyline() and leaves lastcmd.
onecmd(l) ==
    IF l = <<>>
    THEN emptyline /\ lastcmd' = lastcmd
    ELSE /\ lastcmd' = (IF Head(l) = "EOF" THEN <<>> ELSE l)
         /\ Dispatch(l)

-----------------------------------------------------------------------------
(* History of the session, read off the line typed and what was printed *)

PrintedId(o) == Len(o) = 1 /\ "text" \in DOMAIN o[1] /\ o[1].text \in Ids

\* The create just run printed an id: the class typed, the id printed, and the
\* object found under that key.
JustCreated(l, o, d) ==
    IF l # <<>> /\ Head(l) = "create" /\ Len(l) >= 2 /\ PrintedId(o)
    THEN {[cls |-> l[2], id |-> o[1].text,
           obj |-> Get(d, FormatKey(l[2], o[1].text))]}
    ELSE {}

\* The <<class, id>> a destroy line names.
DestroyTarget(l) ==
    IF l # <<>> /\ Head(l) = "destroy" /\ Len(l) >= 3
    THEN {<<l[2], l[3]>>}
    ELSE {}

\* The destroy just run printed nothing: it went through.
JustDestroyed(l, o) == IF o = <<>> THEN DestroyTarget(l) ELSE {}

History(l) ==
    LET new == JustCreated(l, out', objects')
        del == JustDestroyed(l, out')
    IN /\ created' = created \cup new
       /\ made' = {r \in made : <<r.cls, r.id>> \notin DestroyTarget(l)} \cup new
       /\ destroyed' = destroyed \cup del
       /\ gone' = (gone \cup del) \ {<<r.cls, r.id>> : r \in new}
       /\ UNCHANGED initial

-----------------------------------------------------------------------------
(* cmdloop *)

\* cmdloop's condition: while not stop.
Running == ~stop

\* One turn of cmdloop: read a line, run it, keep what it returns in stop.
cmdloop(l) ==
    /\ line' = l
    /\ onecmd(l)
    /\ History(l)

\* The maps a start-up can load: at most MaxInit instances of the known
\* class, in any order, written by an earlier session at time 0.
RECURSIVE InitialMaps(_)
InitialMaps(n) ==
    IF n = 0 THEN {<<>>}
    ELSE LET shorter == InitialMaps(n - 1) IN
         shorter \cup
         {StorageNew(d, NewModel(c, i, 0)) :
            d \in {m \in shorter : Len(m) = n - 1},
            c \in current_classes, i \in Ids}

Init ==
    /\ objects \in {d \in InitialMaps(MaxInit) : Cardinality(Keys(d)) = Len(d)}
    /\ file = objects
    /\ out = <<>>
    /\ stop = FALSE
    /\ line = <<>>
    /\ lastcmd = <<>>
    /\ now = 0
    /\ issued = {objects[n].v.id : n \in 1..Len(objects)}
    /\ initial = objects
    /\ created = {}
    /\ made = {}
    /\ destroyed = {}
    /\ gone = {}

Help == \E args \in {<<>>, <<"create">>} : Running /\ cmdloop(<<"help">> \o args)

EOF == Running /\ cmdloop(<<"EOF">>)

Quit == Running /\ cmdloop(<<"quit">>)

EmptyLine == Running /\ cmdloop(<<>>)

Create == \E args \in ArgLists : Running /\ cmdloop(<<"create">> \o args)

Show == \E args \in ArgLists : Running /\ cmdloop(<<"show">> \o args)

Destroy == \E args \in ArgLists : Running /\ cmdloop(<<"destroy">> \o args)

All == \E args \in ArgLists : Running /\ cmdloop(<<"all">> \o args)

Unknown == \E args \in {<<>>, <<"BaseModel">>} : Running /\ cmdloop(<<"update">> \o args)

Next ==
    \/ Help
    \/ EOF
    \/ Quit
    \/ EmptyLine
    \/ Create
    \/ Show
    \/ Destroy
    \/ All
    \/ Unknown

Spec == Init /\ [][Next]_vars

-----------------------------------------------------------------------------
(* Vocabulary of the properties *)

Verb(l) == IF l = <<>> THEN "" ELSE Head(l)

\* The line names class c and id i after its verb.
Names(l, verb, c, i) == Len(l) >= 3 /\ l[1] = verb /\ l[2] = c /\ l[3] = i

NoInstance == <<Text("** no instance found **")>>

\* The command printed one line that starts with "**": an error report.
PrintsError(o) ==
    /\ Len(o) = 1
    /\ "text" \in DOMAIN o[1]
    /\ Len(o[1].text) >= 2
    /\ SubSeq(o[1].text, 1, 2) = "**"

\* The command printed a list.
PrintsList(o) == Len(o) = 1 /\ "list" \in DOMAIN o[1]

\* The entries of d stored under a key that begins with "<c>.".
UnderPrefix(d, c) ==
    LET p == c \o "." IN
    {n \in 1..Len(d) : Len(d[n].k) >= Len(p) /\ SubSeq(d[n].k, 1, Len(p)) = p}

\* L lists str(v) of exactly the entries idx of d: one each, none extra.
ListsExactly(L, d, idx) ==
    /\ Len(L) = Cardinality(idx)
    /\ \A n \in idx : \E m \in 1..Len(L) : L[m] = Str(d[n].v)
    /\ \A m \in 1..Len(L) : \E n \in idx : L[m] = Str(d[n].v)

-----------------------------------------------------------------------------
(* C1: a create that printed id i, followed with no destroy of that class *)
(* and id in between by show of that class and id, prints the string      *)
(* representation of the object the create made, never "no instance       *)
(* found".                                                                 *)
C1_ShowAfterCreate ==
    [][\A r \in made :
         /\ r.obj # None
         /\ TypeName(r.obj) = r.cls /\ r.obj.id = r.id
         /\ Names(line', "show", r.cls, r.id)
              => out' = <<Text(Str(r.obj))>> /\ out' # NoInstance]_vars

C1_Witness ==
    \E r \in made :
      /\ line = <<"show", r.cls, r.id>>
      /\ out = <<Text(Str(r.obj))>>
      /\ Cardinality(created) >= 2

-----------------------------------------------------------------------------
(* C2: after a destroy of class C and id i went through, the key "C.i" is *)
(* absent from storage, and until a create makes that key again every     *)
(* show C i and every further destroy C i prints "** no instance found    *)
(* **".                                                                    *)
C2_GoneAfterDestroy ==
    [][/\ \A g \in gone : FormatKey(g[1], g[2]) \notin Keys(objects)
       /\ \A g \in gone' : FormatKey(g[1], g[2]) \notin Keys(objects')
       /\ \A g \in gone :
            (Names(line', "show", g[1], g[2]) \/ Names(line', "destroy", g[1], g[2]))
              => out' = NoInstance]_vars

C2_Witness ==
    \E g \in gone :
      /\ line = <<"destroy", g[1], g[2]>>
      /\ out = NoInstance
      /\ FormatKey(g[1], g[2]) \notin Keys(objects)
      /\ objects # <<>>

-----------------------------------------------------------------------------
(* C3: all with no argument prints one entry per stored object, none      *)
(* missing and none extra; all C with a known class C prints exactly the   *)
(* stored objects of class C, which are the objects stored under the keys  *)
(* that begin with "C.".                                                   *)
C3_AllListsStorage ==
    [][Verb(line') = "all" =>
         IF Len(line') = 1
         THEN /\ PrintsList(out')
              /\ ListsExactly(out'[1].list, objects, 1..Len(objects))
         ELSE line'[2] \in current_classes =>
              /\ PrintsList(out')
              /\ ListsExactly(out'[1].list, objects,
                     {n \in 1..Len(objects) : TypeName(objects[n].v) = line'[2]})
              /\ ListsExactly(out'[1].list, objects,
                     UnderPrefix(objects, line'[2]))]_vars

C3_Witness ==
    /\ line = <<"all", "BaseModel">>
    /\ PrintsList(out)
    /\ Len(out[1].list) = 2
    /\ Len(objects) = 2
    /\ destroyed # {}

-----------------------------------------------------------------------------
(* C5: at every prompt the persisted file holds exactly the key -> object *)
(* map that is in memory: each create and destroy that went through has   *)
(* rewritten it.                                                           *)
C5_FileAgrees == file = objects

C5_Witness ==
    /\ created # {}
    /\ destroyed # {}
    /\ objects # initial
    /\ objects # <<>>
    /\ file = objects

-----------------------------------------------------------------------------
(* C6: the keys in storage are the keys loaded at start-up, plus the key  *)
(* "C.i" of every create C that printed id i, minus the keys of the       *)
(* destroys that went through; show, all, help, an empty line and every    *)
(* command that prints an error leave every entry as it was.               *)
C6_KeysAccount ==
    /\ [](Keys(objects) =
            (Keys(initial) \cup {r.cls \o "." \o r.id : r \in created})
              \ {g[1] \o "." \o g[2] : g \in destroyed})
    /\ [][(Verb(line') \notin {"create", "destroy"} \/ PrintsError(out'))
            => objects' = objects]_vars

C6_Witness ==
    /\ initial # <<>>
    /\ created # {}
    /\ destroyed # {}
    /\ PrintsError(out)
    /\ \E n \in 1..Len(initial) : initial[n].k \notin Keys(objects)
    /\ \E r \in created : (r.cls \o "." \o r.id) \in Keys(objects)

-----------------------------------------------------------------------------
(* C7: every stored object is stored under "<its class name>.<its id>",   *)
(* no two entries share a key, and a create that prints an id adds exactly *)
(* one entry, under a key that was not there, leaving the others alone.    *)
C7_CompositeKeys ==
    /\ [](/\ \A n \in 1..Len(objects) :
              objects[n].k = objects[n].v.cls \o "." \o objects[n].v.id
          /\ \A n, m \in 1..Len(objects) :
              objects[n].k = objects[m].k => n = m)
    /\ [][(Verb(line') = "create" /\ PrintedId(out')) =>
            LET key == line'[2] \o "." \o out'[1].text IN
            /\ key \notin Keys(objects)
            /\ Keys(objects') = Keys(objects) \cup {key}
            /\ Len(objects') = Len(objects) + 1
            /\ \A n \in 1..Len(objects) : objects'[n] = objects[n]]_vars

C7_Witness ==
    /\ Verb(line) = "create"
    /\ PrintedId(out)
    /\ Len(objects) = 2
    /\ initial # <<>>
    /\ \A n \in 1..Len(objects) :
         objects[n].k = objects[n].v.cls \o "." \o objects[n].v.id

-----------------------------------------------------------------------------
(* C8: the session ends on quit and on EOF and on nothing else: after any *)
(* other command, one that reports an error included, the loop goes on and *)
(* can run the next command; once quit or EOF has run, no command runs.    *)
C8_EndsOnlyOnQuit ==
    /\ [](~stop => /\ ENABLED Help /\ ENABLED Quit /\ ENABLED EOF
                   /\ ENABLED EmptyLine /\ ENABLED Create /\ ENABLED Show
                   /\ ENABLED Destroy /\ ENABLED All /\ ENABLED Unknown)
    /\ [][/\ ~stop
          /\ stop' <=> Verb(line') \in {"quit", "EOF"}]_vars

C8_Witness ==
    /\ stop
    /\ line = <<"quit">>
    /\ Verb(lastcmd) = "quit"
    /\ destroyed # {}

-----------------------------------------------------------------------------
(* C10: an empty line does nothing: it does not run the last command      *)
(* again, so storage and file stay as they are, nothing is printed and     *)
(* the session goes on.                                                    *)
C10_EmptyLineNoOp ==
    [][line' = <<>> =>
         /\ objects' = objects
         /\ file' = file
         /\ out' = <<>>
         /\ ~stop'
         /\ lastcmd' = lastcmd]_vars

C10_Witness ==
    /\ line = <<>>
    /\ Verb(lastcmd) \in {"create", "destroy"}
    /\ out = <<>>
    /\ ~stop
    /\ created # {}

-----------------------------------------------------------------------------
(* The reports of a command whose class name is missing or unknown, with  *)
(* the two texts as parameters: the properties below are stated once with  *)
(* the texts of the written contract and once with the texts console.py    *)
(* prints.                                                                 *)

\* create, show, destroy or all with a first argument that is no known class
\* prints `unknown` and leaves storage and file alone.
UnknownClassStep(unknown) ==
    (/\ Verb(line') \in {"create", "show", "destroy", "all"}
     /\ Len(line') >= 2
     /\ line'[2] \notin current_classes)
      => /\ out' = <<Text(unknown)>>
         /\ objects' = objects
         /\ file' = file

\* The checks of show and destroy in their order, and those of create.
CheckOrderStep(missing, unknown) ==
    /\ Verb(line') \in {"show", "destroy"} =>
         /\ Len(out') <= 1
         /\ IF Len(line') = 1
            THEN out' = <<Text(missing)>> /\ objects' = objects
            ELSE IF line'[2] \notin current_classes
            THEN out' = <<Text(unknown)>> /\ objects' = objects
            ELSE IF Len(line') = 2
            THEN out' = <<Text("** instance id missing **")>> /\ objects' = objects
            ELSE IF FormatKey(line'[2], line'[3]) \notin Keys(objects)
            THEN out' = NoInstance /\ objects' = objects
            ELSE /\ ~PrintsError(out')
                 /\ Verb(line') = "show" =>
                      out' = <<Text(Str(Get(objects, FormatKey(line'[2], line'[3]))))>>
                 /\ Verb(line') = "destroy" =>
                      objects' = Del(objects, FormatKey(line'[2], line'[3]))
    /\ Verb(line') = "create" =>
         /\ Len(out') <= 1
         /\ IF Len(line') = 1
            THEN out' = <<Text(missing)>> /\ objects' = objects
            ELSE IF line'[2] \notin current_classes
            THEN out' = <<Text(unknown)>> /\ objects' = objects
            ELSE PrintedId(out')

-----------------------------------------------------------------------------
(* C4: create, show, destroy and all with a first argument that is not a  *)
(* known class name print "** class doesn't exist **" and leave the        *)
(* storage map and the persisted file as they were.                        *)
C4_UnknownClass == [][UnknownClassStep("** class doesn't exist **")]_vars

\* What console.py does there: the text it prints ends in a blank.
C4_UnknownClassAsPrinted == [][UnknownClassStep("** class doesn't exist ** ")]_vars

-----------------------------------------------------------------------------
(* C9: show and destroy check in a fixed order and print at most one      *)
(* error: no argument gives "** class name missing **", else an unknown    *)
(* class gives "** class doesn't exist **", else a missing id gives        *)
(* "** instance id missing **", else an absent key gives "** no instance   *)
(* found **"; the lookup or deletion happens only when all four pass.      *)
(* create makes the first two checks only.                                 *)
C9_CheckOrder ==
    [][CheckOrderStep("** class name missing **", "** class doesn't exist **")]_vars

\* What console.py does there: its first two texts end in a blank.
C9_CheckOrderAsPrinted ==
    [][CheckOrderStep("** class name missing ** ", "** class doesn't exist ** ")]_vars

=============================================================================
